---- MODULE Spec2Model ----
(***************************************************************************)
(* Azure Pricing MCP server: the pricing engine of server.py               *)
(* (normalize_sku_name, AzurePricingServer) and the tool dispatch of       *)
(* handlers.py (handle_call_tool and the _handle_* formatters).            *)
(*                                                                         *)
(* A tool call is an asyncio task.  Tasks interleave only where a          *)
(* coroutine suspends, and the only suspension point of a tool call is the *)
(* HTTP GET of _make_request, so one action is everything a task does      *)
(* between two suspensions: CallTool runs from the entry of                *)
(* handle_call_tool to the first GET (or to the end of the call), Respond  *)
(* runs from the arrival of a response to the next GET (or to the end),    *)
(* Cancel delivers a cancellation to a suspended task.                     *)
(*                                                                         *)
(* Python values: None is the empty sequence << >> and a present value v   *)
(* is << v >> wherever a value is optional; a str that the code inspects   *)
(* character by character is a sequence of one-character strings.          *)
(***************************************************************************)
EXTENDS Integers, Sequences, FiniteSets, TLC

VARIABLES
    session,    \* AzurePricingServer.session: 0 is None, else a session id
    sessions,   \* every ClientSession created so far, by id: [open, closes]
    ncalls,     \* tool calls started so far
    task,       \* per asyncio task: the tool call it runs, its locals, its response
    max_retries, \* the retry count _make_request is configured with
    sku,        \* argument of normalize_sku_name
    norm        \* its return value: << >> before the call, else << [terms, display] >>

vars == <<session, sessions, ncalls, task, max_retries, sku, norm>>
serverVars == <<session, sessions, ncalls, task, max_retries>>
normVars == <<sku, norm>>

---------------------------------------------------------------------------
(* Bounds of the model *)

MaxCalls == 2       \* tool calls in one behaviour
MaxRows == 2        \* rows in one upstream page
MaxRegions == 2     \* entries of a regions argument
MaxLimit == 2       \* largest small limit argument
MaxPieces == 3      \* pieces a raw SKU string is built from

(* Program constants *)

MAX_RESULTS_PER_REQUEST == 1000
MAX_RETRIES == 3
DEFAULT_LIMIT == 50
REGION_QUERY_LIMIT == 10
SKU_QUERY_LIMIT == 20

None == << >>
Some(v) == << v >>

Range(s) == {s[i] : i \in 1..Len(s)}
Min(a, b) == IF a < b THEN a ELSE b
Max(a, b) == IF a > b THEN a ELSE b
SeqsUpTo(S, n) == UNION {[1..k -> S] : k \in 0..n}

---------------------------------------------------------------------------
(* normalize_sku_name *)

\* a str literal as its characters
Standard_ == <<"S", "t", "a", "n", "d", "a", "r", "d", "_">>
Basic_ == <<"B", "a", "s", "i", "c", "_">>
standard_ == <<"s", "t", "a", "n", "d", "a", "r", "d", "_">>
basic_ == <<"b", "a", "s", "i", "c", "_">>

prefixes_to_remove == <<Standard_, Basic_, standard_, basic_>>

\* str.startswith
StartsWith(s, p) == Len(s) >= Len(p) /\ SubSeq(s, 1, Len(p)) = p

\* str.replace of one character by another
Replace(s, old, new) == [i \in 1..Len(s) |-> IF s[i] = old THEN new ELSE s[i]]

\* str.strip: leading and trailing whitespace removed
RECURSIVE LStrip(_)
LStrip(s) == IF s # << >> /\ s[1] = " " THEN LStrip(Tail(s)) ELSE s

RECURSIVE RStrip(_)
RStrip(s) == IF s # << >> /\ s[Len(s)] = " " THEN RStrip(SubSeq(s, 1, Len(s) - 1)) ELSE s

Strip(s) == RStrip(LStrip(s))

\* a plausible slip: the loop without its break goes on to the later prefixes
RECURSIVE RemovePrefixNoBreak(_, _)
RemovePrefixNoBreak(s, i) ==
    IF i > Len(prefixes_to_remove) THEN s
    ELSE IF StartsWith(s, prefixes_to_remove[i])
         THEN RemovePrefixNoBreak(SubSeq(s, Len(prefixes_to_remove[i]) + 1, Len(s)), i + 1)
         ELSE RemovePrefixNoBreak(s, i + 1)

\* the for loop over prefixes_to_remove, from index i on, with its break
RECURSIVE RemovePrefix(_, _)
RemovePrefix(s, i) ==
    IF i > Len(prefixes_to_remove) THEN s
    ELSE IF StartsWith(s, prefixes_to_remove[i])
         THEN SubSeq(s, Len(prefixes_to_remove[i]) + 1, Len(s))
         ELSE RemovePrefix(s, i + 1)

\* if x not in search_terms: search_terms.append(x)
AppendIfAbsent(list, x) == IF x \in Range(list) THEN list ELSE Append(list, x)

normalize_sku_name(sku_name) ==
    IF sku_name = << >> THEN [terms |-> << >>, display |-> << >>]
    ELSE LET original == Strip(sku_name)
             normalized == RemovePrefix(original, 1)
             display_name == Replace(normalized, "_", " ")
             undersore_variant == Replace(normalized, " ", "_")
             space_variant == Replace(normalized, "_", " ")
             t1 == AppendIfAbsent(<< >>, undersore_variant)
             t2 == AppendIfAbsent(t1, space_variant)
             t3 == AppendIfAbsent(t2, normalized)
         IN [terms |-> t3, display |-> display_name]

\* raw SKU strings: up to MaxPieces pieces, joined
Pieces == {Standard_, Basic_, standard_, basic_, <<"D", "2">>, <<"v", "3">>, <<"_">>, <<" ">>}

RECURSIVE Join(_)
Join(ps) == IF ps = << >> THEN << >> ELSE Head(ps) \o Join(Tail(ps))

RawSkus == {Join(ps) : ps \in SeqsUpTo(Pieces, MaxPieces)}

\* a caller evaluates normalize_sku_name(sku)
Normalize ==
    /\ norm = << >>
    /\ norm' = Some(normalize_sku_name(sku))
    /\ UNCHANGED <<sku, serverVars>>

---------------------------------------------------------------------------
(* Values exchanged with the upstream endpoint and with the caller *)

\* a price record of the upstream JSON; a key the record lacks reads as None
Row(s, p, n) == [skuName |-> s, retailPrice |-> p, productName |-> n]

Rows == {Row(Some("A"), Some(1), Some("P")),
         Row(Some("A"), Some(2), Some("Q")),
         Row(Some("B"), Some(1), Some("Q")),
         Row(Some("B"), None, Some("P")),
         Row(None, Some(2), Some("P"))}

\* a JSON page: Items may be missing, NextPageLink is present or not
Pages(rowSeqs) ==
    {[Items |-> r, NextPageLink |-> b] : r \in rowSeqs, b \in BOOLEAN}
        \cup {[NextPageLink |-> FALSE]}

\* what one GET can end in
Ok(page) == [status |-> "ok", data |-> Some(page)]
Failed(kind) == [status |-> kind, data |-> None]
Failures == {Failed("http_error"), Failed("client_error"), Failed("bad_json")}

\* an exception: its type and str(e)
Exc(type, msg) == [type |-> type, msg |-> msg]

FailureExc(status) ==
    CASE status = "http_error" -> Exc("ClientResponseError", "500, message='Internal Server Error'")
      [] status = "client_error" -> Exc("ClientConnectorError", "Cannot connect to host prices.azure.com")
      [] OTHER -> Exc("ContentTypeError", "Attempt to decode JSON with unexpected mimetype")

\* TextContent(type="text", text=...): the text and, when the handler appended
\* json.dumps(payload) to it, the payload
Text(text, json) == [type |-> "text", text |-> text, json |-> json]

---------------------------------------------------------------------------
(* AzurePricingServer.search_azure_prices *)

Truthy(opt) == opt # None /\ opt[1] # ""

RECURSIVE JoinAnd(_)
JoinAnd(cs) ==
    IF Len(cs) = 1 THEN cs[1] ELSE cs[1] \o " and " \o JoinAnd(Tail(cs))

filter_conditions(p) ==
    (IF Truthy(p.service_name) THEN <<"serviceName eq '" \o p.service_name[1] \o "'">> ELSE << >>)
    \o (IF Truthy(p.region) THEN <<"armRegionName eq '" \o p.region[1] \o "'">> ELSE << >>)
    \o (IF Truthy(p.sku_name) THEN <<"contains(skuName, '" \o p.sku_name[1] \o "')">> ELSE << >>)

\* the query parameters of the GET
RequestParams(p) ==
    [api_version |-> "2023-01-01-preview",
     currencyCode |-> p.currency_code,
     filter |-> IF filter_conditions(p) # << >> THEN Some(JoinAnd(filter_conditions(p))) ELSE None,
     top |-> IF p.limit < MAX_RESULTS_PER_REQUEST THEN Some(ToString(p.limit)) ELSE None]

\* data.get("Items", [])
ItemsOf(data) == IF "Items" \in DOMAIN data THEN data.Items ELSE << >>

\* the slice items[:limit], a negative limit counting from the end
Slice(items, limit) ==
    IF limit >= 0 THEN SubSeq(items, 1, Min(limit, Len(items)))
    ELSE SubSeq(items, 1, Max(Len(items) + limit, 0))

\* a plausible slip: the page is passed on untruncated
TruncateNever(items, limit) == items

\* if len(items) > limit: items = items[:limit]
Truncate(items, limit) ==
    IF Len(items) > limit THEN Slice(items, limit) ELSE items

\* the envelope built from the JSON page of a successful GET
SearchEnvelope(p, data) ==
    LET items == Truncate(ItemsOf(data), p.limit)
    IN [items |-> items,
        count |-> Len(items),
        has_more |-> data.NextPageLink,
        currency |-> p.currency_code,
        filters_applied |-> filter_conditions(p)]

---------------------------------------------------------------------------
(* AzurePricingServer.compare_prices *)

\* the regions argument: a list of region names, or some other value
ListValue(elems) == [isList |-> TRUE, truthy |-> elems # << >>, elems |-> elems]
OtherValue(truthy) == [isList |-> FALSE, truthy |-> truthy, elems |-> << >>]

\* if regions and isinstance(regions, list)
RegionMode(regions) == regions.truthy /\ regions.isList

\* the row appended for a region whose result has items, None otherwise
RegionRow(region, result) ==
    IF result.items # << >>
    THEN LET item == result.items[1]
         IN Some([region |-> region,
                  sku_name |-> item.skuName,
                  retail_price |-> item.retailPrice,
                  product_name |-> item.productName])
    ELSE None

SkuRow(item) ==
    [sku_name |-> item.skuName,
     retail_price |-> item.retailPrice,
     product_name |-> item.productName]

\* a plausible slip: a later row of a SKU overwrites the earlier one
RECURSIVE CollapseKeepLast(_, _)
CollapseKeepLast(items, sku_prices) ==
    IF items = << >> THEN sku_prices
    ELSE LET item == Head(items)
             seen == {i \in 1..Len(sku_prices) : sku_prices[i].sku_name = item.skuName}
         IN CollapseKeepLast(Tail(items),
                IF ~Truthy(item.skuName) THEN sku_prices
                ELSE IF seen = {} THEN Append(sku_prices, SkuRow(item))
                ELSE [i \in 1..Len(sku_prices) |->
                         IF i \in seen THEN SkuRow(item) ELSE sku_prices[i]])

\* the loop filling sku_prices, a dict: its values in insertion order
RECURSIVE Collapse(_, _)
Collapse(items, sku_prices) ==
    IF items = << >> THEN sku_prices
    ELSE LET item == Head(items)
             known == {sku_prices[i].sku_name : i \in 1..Len(sku_prices)}
         IN Collapse(Tail(items),
                IF Truthy(item.skuName) /\ item.skuName \notin known
                THEN Append(sku_prices, SkuRow(item))
                ELSE sku_prices)

\* x.get("retail_price", 0): the default only when the key is missing
SortKey(x) == IF "retail_price" \in DOMAIN x THEN x.retail_price ELSE Some(0)

\* list.sort compares every element of a list of two or more with another, and
\* the comparison of None with a number or with None raises TypeError
SortRaises(rows) ==
    Len(rows) >= 2 /\ \E i \in 1..Len(rows) : SortKey(rows[i]) = None

\* x goes behind every element whose key is not greater: the sort is stable
RECURSIVE Insert(_, _)
Insert(sorted, x) ==
    IF sorted = << >> THEN <<x>>
    ELSE IF SortKey(x)[1] < SortKey(Head(sorted))[1]
         THEN <<x>> \o sorted
         ELSE <<Head(sorted)>> \o Insert(Tail(sorted), x)

RECURSIVE SortRows(_)
SortRows(rows) ==
    IF Len(rows) <= 1 THEN rows
    ELSE Insert(SortRows(SubSeq(rows, 1, Len(rows) - 1)), rows[Len(rows)])

CompareResult(p, comparisons) ==
    [comparisons |-> comparisons,
     service_name |-> p.service_name,
     currency |-> p.currency_code,
     comparison_type |-> IF p.regions.truthy THEN "regions" ELSE "skus"]

---------------------------------------------------------------------------
(* Tool arguments and their binding to the operations' parameters *)

DiscountKeys == {"discount_percentage", "discounted_price", "additional_discount"}

ArgValue(k, lim, regs) ==
    CASE k = "limit" -> lim
      [] k = "regions" -> regs
      [] k = "service_name" -> "Virtual Machines"
      [] k = "sku_name" -> "D2s"
      [] k = "region" -> "eastus"
      [] k = "currency_code" -> "EUR"
      [] OTHER -> 10

\* the argument mapping of a tool call
MkArgs(keys, lim, regs) == [k \in keys |-> ArgValue(k, lim, regs)]

\* dict.get(k)
Get(d, k) == IF k \in DOMAIN d THEN Some(d[k]) ELSE None

SearchParamNames == {"service_name", "region", "sku_name", "currency_code", "limit"}
CompareParamNames == {"service_name", "sku_name", "regions", "currency_code", "limit"}
RecommendParamNames == {"service_name", "sku_name", "top_n", "currency_code"}

\* f(**kwargs): the TypeError of a call whose keywords do not fit the signature
BindError(fn, kwargs, names, required) ==
    IF DOMAIN kwargs \ names # {}
    THEN Some(Exc("TypeError",
                  "AzurePricingServer." \o fn \o "() got an unexpected keyword argument '"
                      \o (CHOOSE k \in DOMAIN kwargs \ names : TRUE) \o "'"))
    ELSE IF required \ DOMAIN kwargs # {}
    THEN Some(Exc("TypeError",
                  "AzurePricingServer." \o fn \o "() missing required positional argument"))
    ELSE None

\* the parameters of search_azure_prices, defaults filled in
SearchParams(service_name, region, sku_name, currency_code, limit) ==
    [service_name |-> service_name, region |-> region, sku_name |-> sku_name,
     currency_code |-> currency_code, limit |-> limit]

BindSearch(kwargs) ==
    SearchParams(Get(kwargs, "service_name"), Get(kwargs, "region"), Get(kwargs, "sku_name"),
                 IF "currency_code" \in DOMAIN kwargs THEN kwargs.currency_code ELSE "USD",
                 IF "limit" \in DOMAIN kwargs THEN kwargs.limit ELSE DEFAULT_LIMIT)

\* the parameters of compare_prices, defaults filled in
BindCompare(kwargs) ==
    [service_name |-> kwargs.service_name,
     sku_name |-> Get(kwargs, "sku_name"),
     regions |-> IF "regions" \in DOMAIN kwargs THEN kwargs.regions ELSE OtherValue(FALSE),
     currency_code |-> IF "currency_code" \in DOMAIN kwargs THEN kwargs.currency_code ELSE "USD",
     limit |-> IF "limit" \in DOMAIN kwargs THEN kwargs.limit ELSE DEFAULT_LIMIT]

\* the sub-query of one region, and the single query of SKU mode
RegionQuery(cp, region) ==
    SearchParams(Some(cp.service_name), Some(region), cp.sku_name, cp.currency_code,
                 REGION_QUERY_LIMIT)

SkuQuery(cp) ==
    SearchParams(Some(cp.service_name), None, None, cp.currency_code, SKU_QUERY_LIMIT)

\* operation(**arguments): the handlers forward the mapping as it came
Forwarded(arguments) == arguments

---------------------------------------------------------------------------
(* The state of one tool call *)

Tasks == {"t1", "t2"}

NoParams == << >>

IdleTask ==
    [pc |-> "idle",              \* idle, await (suspended in a GET), done, cancelled
     name |-> "",                \* the tool name
     arguments |-> << >>,        \* the argument mapping
     forwarded |-> None,         \* the keywords the operation was called with
     acquired |-> 0,             \* the session this call's __aenter__ created
     op |-> "none",              \* the suspended operation: search, regions, skus
     cp |-> NoParams,            \* compare_prices: its parameters
     i |-> 0,                    \* compare_prices: index of the region being queried
     comparisons |-> << >>,      \* compare_prices: comparisons
     q |-> NoParams,             \* search_azure_prices: its parameters
     request |-> None,           \* _make_request: the GET in flight [sid, params, attempt]
     fetches |-> 0,              \* calls of _make_request in this tool call
     gets |-> 0,                 \* calls of session.get in this tool call
     log |-> << >>,              \* how each call of _make_request ended, in order
     presort |-> None,           \* comparisons as they were when sort was called
     result |-> None,            \* what the operation returned to its handler
     error |-> None,             \* the exception handle_call_tool caught
     raised |-> None,            \* the exception that left handle_call_tool
     response |-> None]          \* the list of TextContent handle_call_tool returned

\* session.close(): closing a closed session changes nothing but is a call
Close(ss, sid) ==
    [ss EXCEPT ![sid] = [open |-> FALSE, closes |-> @.closes + 1]]

\* handle_call_tool returns what the handler returned
Finish(tk, result, response) ==
    [tk EXCEPT !.pc = "done", !.request = None, !.result = result,
               !.response = Some(response)]

\* a plausible slip: the exception is re-raised to the caller
FailRaises(tk, exc) ==
    [tk EXCEPT !.pc = "done", !.request = None, !.raised = Some(exc)]

\* except Exception as e: return [TextContent(type="text", text=f"Error: {str(e)}")]
Fail(tk, exc) ==
    [tk EXCEPT !.pc = "done", !.request = None, !.error = Some(exc),
               !.response = Some(<<Text("Error: " \o exc.msg, None)>>)]

---------------------------------------------------------------------------
(* AzurePricingServer._make_request *)

\* a plausible slip: the except clauses go on to the next attempt
OnFailureRetry(attempt, retries) ==
    IF attempt < retries THEN "retry" ELSE "raise"

\* every except clause of the loop body re-raises
OnFailure(attempt, retries) == "raise"

\* the loop from attempt n on, up to the GET that suspends: session.get on a
\* closed session raises RuntimeError before anything is sent
RECURSIVE Attempt(_, _, _, _, _)
Attempt(tk, params, n, sid, ss) ==
    IF n > max_retries
    THEN [tk |-> [tk EXCEPT !.log = Append(@, Failed("no_attempt"))],
          exc |-> Some(Exc("RuntimeError", "Request failed without exception"))]
    ELSE LET tk1 == [tk EXCEPT !.gets = @ + 1]
         IN IF ss[sid].open
            THEN [tk |-> [tk1 EXCEPT !.pc = "await",
                                     !.request = Some([sid |-> sid, params |-> params,
                                                       attempt |-> n])],
                  exc |-> None]
            ELSE IF OnFailure(n, max_retries) = "retry"
                 THEN Attempt(tk1, params, n + 1, sid, ss)
                 ELSE [tk |-> [tk1 EXCEPT !.log = Append(@, Failed("session_closed"))],
                       exc |-> Some(Exc("RuntimeError", "Session is closed"))]

\* entry of _make_request under self.session = sid: the task suspended in its
\* GET (exc = None), or the exception raised before any suspension
MakeRequest(tk, params, sid, ss) ==
    IF sid = 0
    THEN [tk |-> [tk EXCEPT !.fetches = @ + 1, !.log = Append(@, Failed("no_session"))],
          exc |-> Some(Exc("RuntimeError", "HTTP session not initialized"))]
    ELSE Attempt([tk EXCEPT !.fetches = @ + 1], params, 0, sid, ss)

---------------------------------------------------------------------------
(* The handlers, from their entry or from a response to the next suspension *)

FormattedItem(item) ==
    [product |-> item.productName, sku |-> item.skuName, price |-> item.retailPrice]

\* _handle_price_search after its await (the result carries no sku_validation
\* and no clarification key)
FormatSearch(result) ==
    IF result.items # << >>
    THEN IF result.count > 0
         THEN <<Text("Found " \o ToString(result.count)
                         \o " Azure pricing results:\n\n**Detailed Pricing:**\n",
                     Some([k \in 1..Len(result.items) |-> FormattedItem(result.items[k])]))>>
         ELSE <<Text("No valid pricing results found.", None)>>
    ELSE <<Text("No pricing results found for the specified criteria.", None)>>

\* _handle_price_compare after its await
FormatCompare(result) ==
    <<Text("Price comparison for " \o result.service_name \o ":\n\n",
           Some(result.comparisons))>>

\* _handle_price_search up to the GET of search_azure_prices
StartSearch(tk, sid, ss) ==
    LET kwargs == Forwarded(tk.arguments)
        tk1 == [tk EXCEPT !.forwarded = Some(kwargs)]
        bad == BindError("search_azure_prices", kwargs, SearchParamNames, {})
        q == BindSearch(kwargs)
        m == MakeRequest([tk1 EXCEPT !.op = "search", !.q = q], RequestParams(q), sid, ss)
    IN IF bad # None THEN Fail(tk1, bad[1])
       ELSE IF m.exc # None THEN Fail(m.tk, m.exc[1])
       ELSE m.tk

\* compare_prices from comparisons.sort to the return of its handler
FinishCompare(tk) ==
    LET tk1 == [tk EXCEPT !.presort = Some(tk.comparisons)]
        result == CompareResult(tk.cp, SortRows(tk.comparisons))
    IN IF SortRaises(tk.comparisons)
       THEN Fail(tk1, Exc("TypeError",
                          "'<' not supported between instances of 'NoneType' and 'int'"))
       ELSE Finish([tk1 EXCEPT !.comparisons = result.comparisons],
                   Some(result), FormatCompare(result))

\* the for loop over regions from region tk.i on: a sub-query that raises before
\* it suspends is logged and the loop goes on
RECURSIVE RunRegions(_, _, _)
RunRegions(tk, sid, ss) ==
    IF tk.i > Len(tk.cp.regions.elems)
    THEN FinishCompare(tk)
    ELSE LET q == RegionQuery(tk.cp, tk.cp.regions.elems[tk.i])
             m == MakeRequest([tk EXCEPT !.q = q], RequestParams(q), sid, ss)
         IN IF m.exc = None THEN m.tk
            ELSE RunRegions([m.tk EXCEPT !.i = @ + 1], sid, ss)

\* _handle_price_compare up to the first GET
StartCompare(tk, sid, ss) ==
    LET kwargs == Forwarded(tk.arguments)
        tk1 == [tk EXCEPT !.forwarded = Some(kwargs)]
        bad == BindError("compare_prices", kwargs, CompareParamNames, {"service_name"})
        cp == BindCompare(kwargs)
        q == SkuQuery(cp)
        m == MakeRequest([tk1 EXCEPT !.op = "skus", !.cp = cp, !.q = q],
                         RequestParams(q), sid, ss)
    IN IF bad # None THEN Fail(tk1, bad[1])
       ELSE IF RegionMode(cp.regions)
       THEN RunRegions([tk1 EXCEPT !.op = "regions", !.cp = cp, !.i = 1], sid, ss)
       ELSE IF m.exc # None THEN Fail(m.tk, m.exc[1])
       ELSE m.tk

\* _handle_region_recommend: recommend_regions is a stub without recommendations
StartRecommend(tk) ==
    LET kwargs == Forwarded(tk.arguments)
        tk1 == [tk EXCEPT !.forwarded = Some(kwargs)]
        bad == BindError("recommend_regions", kwargs, RecommendParamNames,
                         {"service_name", "sku_name"})
    IN IF bad # None THEN Fail(tk1, bad[1])
       ELSE Finish(tk1, Some([message |-> "Recommendations not implemented yet."]),
                   <<Text("No region recommendations found for the specified criteria.", None)>>)

\* the tools whose handler calls a method AzurePricingServer does not have, or
\* is itself not defined
MissingTools ==
    {"azure_cost_estimate", "azure_discover_skus", "azure_sku_discovery", "azure_ri_pricing"}

MissingExc(name) ==
    CASE name = "azure_cost_estimate" ->
            Exc("AttributeError", "'AzurePricingServer' object has no attribute 'estimate_costs'")
      [] name = "azure_discover_skus" ->
            Exc("AttributeError", "'AzurePricingServer' object has no attribute 'discover_skus'")
      [] name = "azure_sku_discovery" ->
            Exc("AttributeError", "'AzurePricingServer' object has no attribute 'discover_service_skus'")
      [] OTHER -> Exc("NameError", "name '_handle_ri_pricing' is not defined")

---------------------------------------------------------------------------
(* What the callers and the upstream endpoint may do *)

ToolNames ==
    {"azure_price_search", "azure_price_compare", "azure_region_recommend"}
        \cup MissingTools \cup {"azure_unknown"}

RegionNames == {"eastus", "westus"}

RegionLists == SeqsUpTo(RegionNames, MaxRegions) \ {<< >>}

Limits == (-1 .. MaxLimit) \cup {MAX_RESULTS_PER_REQUEST}

\* no discount key, or one
Extras == {{}} \cup {{k} : k \in DiscountKeys}

SearchArgs ==
    {MkArgs(ks \cup x, 0, 0) :
        ks \in {{}, {"service_name"}, {"service_name", "region", "sku_name", "currency_code"}},
        x \in Extras}
    \cup {MkArgs(ks \cup {"limit"} \cup x, lim, 0) :
        ks \in {{}, {"service_name"}}, lim \in Limits, x \in Extras}

CompareArgs ==
    {MkArgs({"service_name", "regions"}, 0, regs) :
        regs \in {ListValue(r) : r \in RegionLists}
                     \cup {ListValue(<< >>), OtherValue(TRUE), OtherValue(FALSE)}}
    \cup {MkArgs(ks, 0, ListValue(<<"westus">>)) :
        ks \in {{"regions"}, {"service_name", "sku_name", "regions"},
                 {"service_name", "regions", "discounted_price"}}}
    \cup {MkArgs(ks, 0, 0) :
        ks \in {{}, {"service_name"}, {"service_name", "sku_name"},
                 {"service_name", "discount_percentage"}}}

OtherArgs ==
    {MkArgs(ks, 0, 0) : ks \in {{}, {"service_name", "sku_name"}, {"additional_discount"}}}

\* the argument mappings tried for a tool: all of them, or a few
Args(name, rich) ==
    CASE name = "azure_price_search" ->
            IF rich THEN SearchArgs
            ELSE {MkArgs({"service_name", "limit"}, 1, 0)}
      [] name = "azure_price_compare" ->
            IF rich THEN CompareArgs
            ELSE {MkArgs({"service_name", "regions"}, 0, ListValue(<<"eastus", "westus">>)),
                  MkArgs({"service_name"}, 0, 0)}
      [] OTHER -> IF rich THEN OtherArgs ELSE {MkArgs({}, 0, 0)}

Filler == Row(Some("A"), Some(2), Some("Q"))

\* pages of a region sub-query, of which only the first row is read
RegionRowSeqs ==
    {<< >>} \cup {<<r>> \o [j \in 1..k |-> Filler] : r \in Rows, k \in 0..(MaxRows - 1)}

\* the answers the endpoint may give to a GET of operation op
Responses(op, rich) ==
    IF ~rich
    THEN Failures
         \cup {Ok([Items |-> <<Row(Some("A"), Some(1), Some("P"))>>, NextPageLink |-> FALSE])}
    ELSE IF op = "regions"
    THEN Failures \cup {Ok([Items |-> r, NextPageLink |-> FALSE]) : r \in RegionRowSeqs}
    ELSE Failures \cup {Ok(pg) : pg \in Pages(SeqsUpTo(Rows, MaxRows))}

---------------------------------------------------------------------------
(* Actions *)

\* __aenter__: self.session = aiohttp.ClientSession()
NewSid == Len(sessions) + 1
Opened == Append(sessions, [open |-> TRUE, closes |-> 0])

CanStart(t) == task[t].pc = "idle" /\ ncalls < MaxCalls

Call(name, arguments) ==
    [IdleTask EXCEPT !.name = name, !.arguments = arguments, !.acquired = NewSid]

\* the state after the call ran to tk2 under its new session: __aexit__ closes
\* self.session when the body has ended
Entered(t, tk2) ==
    /\ task' = [task EXCEPT ![t] = tk2]
    /\ session' = NewSid
    /\ sessions' = IF tk2.pc = "await" THEN Opened ELSE Close(Opened, NewSid)
    /\ ncalls' = ncalls + 1
    /\ UNCHANGED <<max_retries, normVars>>

\* handle_call_tool("azure_price_search", arguments)
CallPriceSearch(t, rich) ==
    /\ CanStart(t)
    /\ \E a \in Args("azure_price_search", rich) :
          Entered(t, StartSearch(Call("azure_price_search", a), NewSid, Opened))

\* handle_call_tool("azure_price_compare", arguments)
CallPriceCompare(t, rich) ==
    /\ CanStart(t)
    /\ \E a \in Args("azure_price_compare", rich) :
          Entered(t, StartCompare(Call("azure_price_compare", a), NewSid, Opened))

\* handle_call_tool("azure_region_recommend", arguments)
CallRegionRecommend(t, rich) ==
    /\ CanStart(t)
    /\ \E a \in Args("azure_region_recommend", rich) :
          Entered(t, StartRecommend(Call("azure_region_recommend", a)))

\* handle_call_tool of a tool whose handler fails with AttributeError or NameError
CallMissingTool(t, rich) ==
    /\ CanStart(t)
    /\ \E name \in MissingTools :
          \E a \in Args(name, rich) :
             Entered(t, Fail(Call(name, a), MissingExc(name)))

\* handle_call_tool of a name no branch matches
CallUnknownTool(t, rich) ==
    /\ CanStart(t)
    /\ \E a \in Args("azure_unknown", rich) :
          Entered(t, Finish(Call("azure_unknown", a), None,
                            <<Text("Unknown tool: " \o "azure_unknown", None)>>))

\* handle_call_tool when ClientSession() raises in __aenter__: the body and
\* __aexit__ do not run
AcquireFails(t, rich) ==
    /\ CanStart(t)
    /\ \E name \in ToolNames :
          \E a \in Args(name, rich) :
             task' = [task EXCEPT ![t] =
                         Fail([IdleTask EXCEPT !.name = name, !.arguments = a],
                              Exc("RuntimeError", "ClientSession could not be created"))]
    /\ ncalls' = ncalls + 1
    /\ UNCHANGED <<session, sessions, max_retries, normVars>>

\* the state after a suspended call ran on to tk2: __aexit__ closes whatever
\* self.session is when the body has ended
Resumed(t, tk2) ==
    /\ task' = [task EXCEPT ![t] = tk2]
    /\ sessions' = IF tk2.pc = "await" \/ session = 0 THEN sessions
                   ELSE Close(sessions, session)
    /\ UNCHANGED <<session, ncalls, max_retries, normVars>>

\* the except clauses of _make_request on a failed GET
AfterFailure(tk, resp) ==
    LET req == tk.request[1]
    IN IF OnFailure(req.attempt, max_retries) = "retry"
       THEN Attempt(tk, req.params, req.attempt + 1, session, sessions)
       ELSE [tk |-> [tk EXCEPT !.log = Append(@, resp)],
             exc |-> Some(FailureExc(resp.status))]

\* the GET of a price search ends
SearchResponds(t, rich) ==
    /\ task[t].pc = "await" /\ task[t].op = "search"
    /\ \E resp \in Responses("search", rich) :
          LET tk == task[t]
              result == SearchEnvelope(tk.q, resp.data[1])
              f == AfterFailure(tk, resp)
          IN Resumed(t, IF resp.status = "ok"
                        THEN Finish([tk EXCEPT !.log = Append(@, resp)],
                                    Some(result), FormatSearch(result))
                        ELSE IF f.exc = None THEN f.tk
                        ELSE Fail(f.tk, f.exc[1]))

\* the GET of a region's sub-query ends: the loop of compare_prices goes on
RegionResponds(t, rich) ==
    /\ task[t].pc = "await" /\ task[t].op = "regions"
    /\ \E resp \in Responses("regions", rich) :
          LET tk == task[t]
              result == SearchEnvelope(tk.q, resp.data[1])
              row == RegionRow(tk.cp.regions.elems[tk.i], result)
              f == AfterFailure(tk, resp)
          IN Resumed(t, IF resp.status = "ok"
                        THEN RunRegions([tk EXCEPT !.log = Append(@, resp),
                                                   !.comparisons = @ \o row,
                                                   !.request = None,
                                                   !.i = @ + 1],
                                        session, sessions)
                        ELSE IF f.exc = None THEN f.tk
                        ELSE RunRegions([f.tk EXCEPT !.request = None, !.i = @ + 1],
                                        session, sessions))

\* the GET of the SKU-mode query ends
SkuResponds(t, rich) ==
    /\ task[t].pc = "await" /\ task[t].op = "skus"
    /\ \E resp \in Responses("skus", rich) :
          LET tk == task[t]
              result == SearchEnvelope(tk.q, resp.data[1])
              f == AfterFailure(tk, resp)
          IN Resumed(t, IF resp.status = "ok"
                        THEN FinishCompare([tk EXCEPT !.log = Append(@, resp),
                                                      !.comparisons =
                                                          Collapse(result.items, << >>)])
                        ELSE IF f.exc = None THEN f.tk
                        ELSE Fail(f.tk, f.exc[1]))

\* task.cancel() of a suspended call throws this into its await
CancelledError == Exc("CancelledError", "")

\* a plausible slip: the clause catches whatever is thrown (a bare except, or
\* except BaseException)
RegionCatchesAll(exc) == TRUE

\* except Exception as e, around the sub-query of a region: CancelledError
\* derives from BaseException and is not caught
RegionCatches(exc) == exc.type # "CancelledError"

\* the suspended call after exc was thrown into its GET and left _make_request
\* and search_azure_prices: the region loop logs it and goes on if its clause
\* catches it, else it leaves compare_prices, the handler and handle_call_tool
Thrown(tk, exc, sid, ss) ==
    IF tk.op = "regions" /\ RegionCatches(exc)
    THEN RunRegions([tk EXCEPT !.log = Append(@, Failed("cancelled")),
                               !.request = None, !.i = @ + 1], sid, ss)
    ELSE [tk EXCEPT !.pc = "cancelled", !.request = None, !.raised = Some(exc)]

\* the task of a suspended call is cancelled: CancelledError is no Exception, so
\* no except clause catches it; __aexit__ runs and the error leaves the handler
Cancel(t) ==
    /\ task[t].pc = "await"
    /\ Resumed(t, Thrown(task[t], CancelledError, session, sessions))

\* the call is over for its caller, who has the response or the
\* cancellation: the task is free for the next call
Return(t) ==
    /\ task[t].pc \in {"done", "cancelled"}
    /\ task' = [task EXCEPT ![t] = IdleTask]
    /\ UNCHANGED <<session, sessions, ncalls, max_retries, normVars>>

Step(t, rich) ==
    \/ CallPriceSearch(t, rich)
    \/ CallPriceCompare(t, rich)
    \/ CallRegionRecommend(t, rich)
    \/ CallMissingTool(t, rich)
    \/ CallUnknownTool(t, rich)
    \/ AcquireFails(t, rich)
    \/ SearchResponds(t, rich)
    \/ RegionResponds(t, rich)
    \/ SkuResponds(t, rich)
    \/ Cancel(t)
    \/ Return(t)

---------------------------------------------------------------------------
(* Specifications *)

InitServer ==
    /\ session = 0
    /\ sessions = << >>
    /\ ncalls = 0
    /\ task = [t \in Tasks |-> IdleTask]

Init == InitServer /\ max_retries = MAX_RETRIES /\ sku = << >> /\ norm = None

\* two tasks whose tool calls overlap, on few arguments and answers
Next == \E t \in Tasks : Step(t, FALSE)

Spec == Init /\ [][Next]_vars

\* one task, one call after the other, on all arguments and answers
NextData == Step("t1", TRUE)

SpecData == Init /\ [][NextData]_vars

\* two overlapping tasks under every retry count up to the configured one
InitRetry ==
    InitServer /\ max_retries \in 0..MAX_RETRIES /\ sku = << >> /\ norm = None

SpecRetry == InitRetry /\ [][Next]_vars

\* normalize_sku_name on every raw SKU string
InitNorm == InitServer /\ max_retries = MAX_RETRIES /\ sku \in RawSkus /\ norm = None

NextNorm == Normalize

SpecNorm == InitNorm /\ [][NextNorm]_vars

---------------------------------------------------------------------------
(* Properties *)

\* the rows of the page the call's k-th fetch received
Upstream(tk, k) == ItemsOf(tk.log[k].data[1])

LimitOf(tk) ==
    IF "limit" \in DOMAIN tk.arguments THEN tk.arguments.limit ELSE DEFAULT_LIMIT

\* C1: a price search with limit L >= 0 returns at most L rows, the first
\* min(L, n) of the n upstream rows in upstream order, and count is the number
\* of rows returned, whatever has_more is.
C1_SearchTruncates ==
    \A t \in Tasks :
        LET tk == task[t]
        IN (tk.name = "azure_price_search" /\ tk.result # None /\ LimitOf(tk) >= 0) =>
              LET env == tk.result[1]
                  up == Upstream(tk, 1)
              IN /\ Len(env.items) <= LimitOf(tk)
                 /\ Len(env.items) = Min(LimitOf(tk), Len(up))
                 /\ \A k \in 1..Len(env.items) : env.items[k] = up[k]
                 /\ env.count = Len(env.items)
                 /\ env.has_more = tk.log[1].data[1].NextPageLink

\* a search with limit 1 that got two rows, returned one, and reports no more pages
C1_Witness ==
    \E t \in Tasks :
        LET tk == task[t]
        IN /\ tk.name = "azure_price_search" /\ tk.result # None
           /\ LimitOf(tk) = 1
           /\ Len(Upstream(tk, 1)) = 2
           /\ tk.result[1].count = 1
           /\ ~tk.result[1].has_more

\* the regions whose sub-query succeeded with at least one row
GoodRegions(tk) ==
    {i \in 1..Len(tk.log) : tk.log[i].status = "ok" /\ Upstream(tk, i) # << >>}

\* C2: a region-mode comparison does not raise, queries every region whatever
\* failed before, and returns exactly one row for each region whose sub-query
\* succeeded with at least one row and none for a failed region.
C2_RegionFailuresSkipped ==
    \A t \in Tasks :
        LET tk == task[t]
            regions == tk.cp.regions.elems
        IN (tk.pc = "done" /\ tk.op = "regions") =>
              /\ tk.error = None /\ tk.result # None
              /\ Len(tk.log) = Len(regions)
              /\ \A r \in RegionNames :
                    Cardinality({k \in 1..Len(tk.comparisons) : tk.comparisons[k].region = r})
                        = Cardinality({i \in GoodRegions(tk) : regions[i] = r})

\* C3: the session a tool call acquired is released by the time the call has
\* finished, however it finished.
C3_SessionReleased ==
    \A t \in Tasks :
        (task[t].pc \in {"done", "cancelled"} /\ task[t].acquired # 0) =>
            ~sessions[task[t].acquired].open

\* the first upstream row carrying SKU name s
FirstWithSku(up, s) ==
    up[CHOOSE i \in 1..Len(up) :
          /\ up[i].skuName = s
          /\ \A j \in 1..(i - 1) : up[j].skuName # s]

\* C4: a SKU-mode comparison has at most one row per SKU name, and that row has
\* the price and the product name of the first upstream row of that SKU name.
C4_OneRowPerSku ==
    \A t \in Tasks :
        LET tk == task[t]
            rows == tk.result[1].comparisons
        IN (tk.op = "skus" /\ tk.result # None) =>
              /\ \A j, k \in 1..Len(rows) : rows[j].sku_name = rows[k].sku_name => j = k
              /\ \A k \in 1..Len(rows) :
                    /\ \E i \in 1..Len(Upstream(tk, 1)) :
                           Upstream(tk, 1)[i].skuName = rows[k].sku_name
                    /\ rows[k].retail_price
                           = FirstWithSku(Upstream(tk, 1), rows[k].sku_name).retailPrice
                    /\ rows[k].product_name
                           = FirstWithSku(Upstream(tk, 1), rows[k].sku_name).productName

\* a SKU-mode result of one row from a page that repeats the SKU at another price
C4_Witness ==
    \E t \in Tasks :
        LET tk == task[t]
        IN /\ tk.op = "skus" /\ tk.result # None
           /\ Len(tk.result[1].comparisons) = 1
           /\ Len(Upstream(tk, 1)) = 2
           /\ Upstream(tk, 1)[1].skuName = Upstream(tk, 1)[2].skuName
           /\ Upstream(tk, 1)[1].retailPrice # Upstream(tk, 1)[2].retailPrice

PriceOrZero(x) == IF x.retail_price = None THEN 0 ELSE x.retail_price[1]

\* rows is before, stably sorted by price with a missing price as 0
StablySorted(before, rows) ==
    /\ Len(rows) = Len(before)
    /\ \E f \in [1..Len(rows) -> 1..Len(rows)] :
          /\ \A j, k \in 1..Len(rows) : f[j] = f[k] => j = k
          /\ \A k \in 1..Len(rows) : rows[k] = before[f[k]]
          /\ \A j, k \in 1..Len(rows) :
                j < k => \/ PriceOrZero(rows[j]) < PriceOrZero(rows[k])
                         \/ PriceOrZero(rows[j]) = PriceOrZero(rows[k]) /\ f[j] < f[k]

\* C5: in both modes the comparison that reached its sort returns its rows in
\* stable ascending order of price, a missing price counting as 0, and does
\* not fail over a missing price.
C5_SortedMissingAsZero ==
    \A t \in Tasks :
        LET tk == task[t]
        IN (tk.pc = "done" /\ tk.presort # None) =>
              /\ tk.result # None
              /\ StablySorted(tk.presort[1], tk.result[1].comparisons)

\* C6: no discount key of the argument mapping is among the keywords forwarded
\* to the operation, and the operation does not fail over one.
C6_DiscountKeysStripped ==
    \A t \in Tasks :
        LET tk == task[t]
        IN tk.forwarded # None =>
              /\ DOMAIN tk.forwarded[1] \cap DiscountKeys = {}
              /\ tk.error # None => tk.error[1].type # "TypeError"

C8_OneGetPerFetch ==
    \A t \in Tasks :
        LET tk == task[t]
        IN /\ tk.gets = tk.fetches
           /\ tk.request # None => tk.request[1].attempt = 0
           /\ (tk.pc = "done" /\ tk.op = "search" /\ tk.log # << >> /\ tk.log[1] \in Failures) =>
                 /\ tk.gets = 1
                 /\ tk.error = Some(FailureExc(tk.log[1].status))

\* a search that ended with the error of its failed GET
C8_Witness ==
    \E t \in Tasks :
        LET tk == task[t]
        IN /\ tk.pc = "done" /\ tk.op = "search"
           /\ tk.log = <<Failed("client_error")>>
           /\ tk.fetches = 1
           /\ tk.error = Some(FailureExc("client_error"))

PrefixSet == Range(prefixes_to_remove)

\* C9: for a non-empty raw SKU string at most one of the four prefixes is removed,
\* the display name is what is left with spaces for underscores, and the
\* candidate list is non-empty without duplicates; for the empty string both
\* results are empty.
C9_NormalizeSku ==
    norm # None =>
        LET terms == norm[1].terms
            display == norm[1].display
            original == Strip(sku)
        IN IF sku = << >>
           THEN terms = << >> /\ display = << >>
           ELSE /\ terms # << >>
                /\ \A j, k \in 1..Len(terms) : terms[j] = terms[k] => j = k
                /\ "_" \notin Range(display)
                /\ \E n \in Range(terms) :
                      /\ display = [i \in 1..Len(n) |-> IF n[i] = "_" THEN " " ELSE n[i]]
                      /\ \/ original = n /\ \A p \in PrefixSet : ~StartsWith(original, p)
                         \/ \E p \in PrefixSet : original = p \o n

\* Standard_Basic_D2 normalized: only Standard_ is gone
C9_Witness ==
    /\ sku = Standard_ \o Basic_ \o <<"D", "2">>
    /\ norm # None
    /\ norm[1].display = <<"B", "a", "s", "i", "c", " ", "D", "2">>

\* C10: the session of a call that is still running stays the server's session
\* and stays open whatever other calls do, and every session is closed exactly
\* once.
C10_NoInterference ==
    /\ \A t \in Tasks :
          task[t].pc = "await" =>
              session = task[t].acquired /\ sessions[task[t].acquired].open
    /\ \A sid \in 1..Len(sessions) :
          /\ sessions[sid].closes <= 1
          /\ (\A t \in Tasks : task[t].pc # "await") => sessions[sid].closes = 1

\* C11: when a call is cancelled while the sub-query of a region is in flight,
\* the cancellation leaves the call as CancelledError: the call issues no further
\* fetch and no further GET, adds no row, returns no comparison result and no
\* response, and a cancelled call does nothing any more until it is handed back.
C11_CancelStopsRegions ==
    [][\A t \in Tasks :
          /\ (Cancel(t) /\ task[t].op = "regions") =>
                 /\ task'[t].pc = "cancelled"
                 /\ task'[t].raised = Some(CancelledError)
                 /\ task'[t].fetches = task[t].fetches
                 /\ task'[t].gets = task[t].gets
                 /\ task'[t].i = task[t].i
                 /\ task'[t].comparisons = task[t].comparisons
                 /\ task'[t].log = task[t].log
                 /\ task'[t].result = None
                 /\ task'[t].error = None
                 /\ task'[t].response = None
          /\ (task[t].pc = "cancelled" /\ task[t].op = "regions") =>
                 task'[t] \in {task[t], IdleTask}]_vars

\* a region-mode call cancelled in the sub-query of a region that is not the
\* last one, after an earlier region gave a row
C11_Witness ==
    \E t \in Tasks :
        LET tk == task[t]
        IN /\ tk.pc = "cancelled" /\ tk.op = "regions"
           /\ tk.raised = Some(CancelledError)
           /\ tk.i < Len(tk.cp.regions.elems)
           /\ tk.fetches = tk.i
           /\ tk.response = None

\* C12: whatever the regions argument is, a comparison that returns a result
\* reports comparison_type "regions" exactly when it ran the per-region
\* sub-queries and "skus" exactly when it ran the single SKU-collapsing query.
C12_TypeMatchesMode ==
    \A t \in Tasks :
        LET tk == task[t]
        IN (tk.pc = "done" /\ tk.name = "azure_price_compare" /\ tk.result # None) =>
              /\ tk.result[1].comparison_type \in {"regions", "skus"}
              /\ tk.result[1].comparison_type = "regions" <=> tk.op = "regions"
              /\ tk.result[1].comparison_type = "skus" <=> tk.op = "skus"

====
